---- MODULE Spec2Model ----
(***************************************************************************)
(* The agentic ELT dashboard of src/app.py as a state machine.  One step   *)
(* is one execution of the Streamlit script for a session: the cached      *)
(* extractor fetch_openaq, planner, transformer, the agent commentary,     *)
(* keep_memory, critic and the save of the snapshot for the next run.      *)
(* Session state (st.session_state) and the st.cache_data cache survive    *)
(* between steps; the script's globals hold the last run's results.        *)
(*                                                                         *)
(* A DataFrame is the sequence of its rows.  A Series that may be None is  *)
(* [some |-> BOOLEAN, ser |-> sequence].  Means, deltas and z-scores are   *)
(* exact rationals [n, d] in lowest terms.                                 *)
(***************************************************************************)
EXTENDS Integers, Sequences, FiniteSets, TLC

VARIABLES
    etl_frame,      \* st.session_state.etl_frame: script runs so far
    mem_insights,   \* st.session_state.mem_insights
    prev_snapshot,  \* st.session_state.prev_snapshot ([some, df])
    last_run_meta,  \* st.session_state.last_run_meta ([has_error, extract_error])
    cache,          \* st.cache_data store of fetch_openaq, by its country argument
                    \* (the limit argument keys it the same way)
    country,        \* sidebar text input, kept across reruns
    rerun,          \* st.experimental_rerun() was requested by the last run
    df_raw,         \* script global: the extractor's return value
    df_origin,      \* where df_raw came from: the fetch that produced it
    plan,           \* script global: planner(df_raw)
    out,            \* script global: transformer(df_raw, plan)
    agent_msgs,     \* script global: the agent commentary
    critic_notes,   \* script global: critic(plan, out)
    call,           \* arguments of the last keep_memory call
    insight_log     \* history: the message of every keep_memory call, in order

vars == <<etl_frame, mem_insights, prev_snapshot, last_run_meta, cache, country,
          rerun, df_raw, df_origin, plan, out, agent_msgs, critic_notes, call,
          insight_log>>

---------------------------------------------------------------------------
(* Bounds of the model.                                                    *)

\* rows per snapshot, script runs per session (session specification)
MaxRows == 1
MaxRuns == 3
\* script runs per session (memory specification)
MaxMemRuns == 10
\* rows per snapshot (planner / aggregation specification)
MaxAggRows == 3
\* rows per snapshot (delta specification)
MaxDeltaRows == 2
\* outlier readings per parameter group (anomaly specification)
MaxOutliers == 2
\* largest capacity and number of calls (keep_memory specification)
MaxCap == 3
MaxCalls == 5

(* Program constants.                                                      *)
DefaultMaxItems == 8    \* keep_memory(msg, max_items = 8)
ZThreshold == 2         \* df["z"].abs() >= 2
AlertCap == 3           \* .head(3)
AlertsInMsg == 2        \* out["alerts"][:2]

---------------------------------------------------------------------------
(* Exact rationals.                                                        *)

Abs(i) == IF i < 0 THEN -i ELSE i

RECURSIVE Gcd(_, _)
Gcd(a, b) == IF b = 0 THEN a ELSE Gcd(b, a % b)

Frac(n, d) ==
    LET g == Gcd(Abs(n), Abs(d))
        s == IF d < 0 THEN -1 ELSE 1
    IN  [n |-> (s * n) \div g, d |-> (s * d) \div g]

FracSub(a, b) == Frac(a.n * b.d - b.n * a.d, a.d * b.d)
FracLess(a, b) == a.n * b.d < b.n * a.d
FracInt(i) == [n |-> i, d |-> 1]

---------------------------------------------------------------------------
(* Data.                                                                   *)

\* A JSON null key (res.get("city") / m.get("parameter") returning None).
NullKey == "None"
\* Keys in the order Python compares them (groupby emits groups in it).
KeyOrder == <<"Agra", "Delhi", "Pune", "o3", "pm25">>
Rank(k) == CHOOSE i \in 1..Len(KeyOrder) : KeyOrder[i] = k

\* A raw Value is a JSON number or something pd.to_numeric cannot parse.
Num(i) == [t |-> "num", n |-> i]
Text == [t |-> "text", n |-> 0]
NaN == [t |-> "nan", n |-> 0]

Row(c, p, v) ==
    [City |-> c, Parameter |-> p, Value |-> v, Unit |-> "ug/m3",
     LastUpdated |-> "t0"]

NoneDf == [some |-> FALSE, df |-> <<>>]
SomeDf(df) == [some |-> TRUE, df |-> df]
NoneSeries == [some |-> FALSE, ser |-> <<>>]
SomeSeries(s) == [some |-> TRUE, ser |-> s]

SeqsUpTo(S, n) == UNION {[1..k -> S] : k \in 0..n}
Min(a, b) == IF a < b THEN a ELSE b
Max(a, b) == IF a > b THEN a ELSE b

---------------------------------------------------------------------------
(* Memory.                                                                 *)

\* s[-k:] for k >= 0.  Python reads -0 as 0, so s[-0:] is the whole list.
PySuffix(s, k) ==
    IF k = 0 THEN s ELSE SubSeq(s, Max(1, Len(s) - k + 1), Len(s))

\* Faulty variant: the cut keeps the oldest entries instead of the newest.
keep_memory_oldest(mem, msg, max_items) ==
    LET appended == Append(mem, msg)
    IN  IF Len(appended) > max_items
        THEN SubSeq(appended, 1, max_items)
        ELSE appended

keep_memory(mem, msg, max_items) ==
    LET appended == Append(mem, msg)
    IN  IF Len(appended) > max_items
        THEN PySuffix(appended, max_items)
        ELSE appended

---------------------------------------------------------------------------
(* Extractor.  A response of the API is a payload of rows or a failure     *)
(* with the text of its exception.                                         *)

Payload(rows) == [ok |-> TRUE, rows |-> rows, reason |-> ""]
Failure(reason) == [ok |-> FALSE, rows |-> <<>>, reason |-> reason]

NoMeta == [has_error |-> FALSE, extract_error |-> ""]

\* The body of fetch_openaq, run on a cache miss: the returned frame and
\* the session's last_run_meta after it.
fetch_openaq(resp, meta) ==
    IF resp.ok
    THEN [df |-> resp.rows, meta |-> meta]
    ELSE [df |-> <<>>, meta |-> [has_error |-> TRUE, extract_error |-> resp.reason]]

\* What st.cache_data keeps for one argument tuple: the returned frame
\* (origin: the response it was built from).
NoEntry == [hit |-> FALSE, df |-> <<>>, origin |-> Payload(<<>>)]
Entry(df, resp) == [hit |-> TRUE, df |-> df, origin |-> resp]

---------------------------------------------------------------------------
(* Frame helpers.                                                          *)

to_numeric(v) == IF v.t = "num" THEN v ELSE NaN

NotNaN(r) == r.Value.t # "nan"

\* df["Value"] = pd.to_numeric(df["Value"], errors="coerce"); dropna
Clean(df) ==
    SelectSeq([i \in 1..Len(df) |-> [df[i] EXCEPT !.Value = to_numeric(@)]], NotNaN)

\* Faulty variant: nunique(dropna=False), which counts a null key.
nunique_with_null(df, col) == Cardinality({df[i][col] : i \in 1..Len(df)})

\* Series.nunique(): distinct non-null values
nunique(df, col) == Cardinality({df[i][col] : i \in 1..Len(df)} \ {NullKey})

RECURSIVE SortedKeys(_)
SortedKeys(K) ==
    IF K = {} THEN <<>>
    ELSE LET k == CHOOSE x \in K : \A y \in K : Rank(x) <= Rank(y)
         IN  <<k>> \o SortedKeys(K \ {k})

RECURSIVE SumValues(_)
SumValues(df) == IF df = <<>> THEN 0 ELSE Head(df).Value.n + SumValues(Tail(df))

\* df.groupby(col)["Value"].mean(): one entry per non-null key, in key order
groupby_mean(df, col) ==
    LET keys == SortedKeys({df[i][col] : i \in 1..Len(df)} \ {NullKey})
        grp(k) == SelectSeq(df, LAMBDA r : r[col] = k)
    IN  [i \in 1..Len(keys) |->
            [key |-> keys[i], v |-> Frac(SumValues(grp(keys[i])), Len(grp(keys[i])))]]

RemoveAt(s, i) == SubSeq(s, 1, i - 1) \o SubSeq(s, i + 1, Len(s))

\* Faulty variant: sort_values() with the default ascending=True.
RECURSIVE sort_values_asc(_)
sort_values_asc(ser) ==
    IF ser = <<>> THEN {<<>>}
    ELSE LET low == {i \in 1..Len(ser) :
                        \A j \in 1..Len(ser) : ~FracLess(ser[j].v, ser[i].v)}
         IN  UNION {{<<ser[i]>> \o rest : rest \in sort_values_asc(RemoveAt(ser, i))}
                    : i \in low}

\* The orders a descending sort_values can return: numpy's default
\* quicksort fixes no order among equal values, so every order of the ties
\* is a possible result.
RECURSIVE sort_values_desc(_)
sort_values_desc(ser) ==
    IF ser = <<>> THEN {<<>>}
    ELSE LET top == {i \in 1..Len(ser) :
                        \A j \in 1..Len(ser) : ~FracLess(ser[i].v, ser[j].v)}
         IN  UNION {{<<ser[i]>> \o rest : rest \in sort_values_desc(RemoveAt(ser, i))}
                    : i \in top}

\* Faulty variant: the cut is missing.
head_all(s, k) == s

head(s, k) == SubSeq(s, 1, Min(k, Len(s)))

---------------------------------------------------------------------------
(* Planner.                                                                *)

NoRationale == [given |-> FALSE, cities |-> 0, params |-> 0, deltas |-> FALSE]

AllFalsePlan ==
    [aggregate_city |-> FALSE, aggregate_param |-> FALSE,
     compute_deltas |-> FALSE, rationale |-> NoRationale]

\* Faulty variant: the early return for an empty frame is missing.
planner_no_return(df, prev) ==
    [aggregate_city |-> nunique(df, "City") >= 2,
     aggregate_param |-> nunique(df, "Parameter") >= 2,
     compute_deltas |-> prev.some,
     rationale |-> [given |-> TRUE, cities |-> nunique(df, "City"),
                    params |-> nunique(df, "Parameter"), deltas |-> prev.some]]

\* planner(df), reading st.session_state.prev_snapshot
planner(df, prev) ==
    IF df = <<>> THEN AllFalsePlan
    ELSE LET nunique_cities == nunique(df, "City")
             nunique_params == nunique(df, "Parameter")
         IN  [aggregate_city |-> nunique_cities >= 2,
              aggregate_param |-> nunique_params >= 2,
              compute_deltas |-> prev.some,
              rationale |-> [given |-> TRUE, cities |-> nunique_cities,
                             params |-> nunique_params, deltas |-> prev.some]]

---------------------------------------------------------------------------
(* Transformer.                                                            *)

\* A z-score: undefined (NaN), or a sign and the exact square of its size.
NaNZ == [def |-> FALSE, sign |-> 0, sq |-> FracInt(0)]

RECURSIVE SumSqDev(_, _, _)
\* sum over the rows of (n * x - total)^2, which is n^2 times the sum of
\* squared deviations from the mean total / n
SumSqDev(df, n, total) ==
    IF df = <<>> THEN 0
    ELSE (n * Head(df).Value.n - total) * (n * Head(df).Value.n - total)
         + SumSqDev(Tail(df), n, total)

\* Faulty variant: the population standard deviation (ddof = 0).
zscore_population(df, r) ==
    IF r.Parameter = NullKey THEN NaNZ
    ELSE LET grp == SelectSeq(df, LAMBDA x : x.Parameter = r.Parameter)
             n == Len(grp)
             total == SumValues(grp)
             ss == SumSqDev(grp, n, total)
             dev == n * r.Value.n - total
         IN  IF ss = 0 THEN NaNZ
             ELSE [def |-> TRUE,
                   sign |-> IF dev < 0 THEN -1 ELSE IF dev > 0 THEN 1 ELSE 0,
                   sq |-> Frac(dev * dev * n, ss)]

\* param_stats joined on Parameter, then
\* df["z"] = (Value - m) / s.replace(0, nan), with s the sample std (ddof = 1)
zscore(df, r) ==
    IF r.Parameter = NullKey THEN NaNZ
    ELSE LET grp == SelectSeq(df, LAMBDA x : x.Parameter = r.Parameter)
             n == Len(grp)
             total == SumValues(grp)
             ss == SumSqDev(grp, n, total)
             dev == n * r.Value.n - total
         IN  IF n < 2 \/ ss = 0 THEN NaNZ
             ELSE [def |-> TRUE,
                   sign |-> IF dev < 0 THEN -1 ELSE IF dev > 0 THEN 1 ELSE 0,
                   sq |-> Frac(dev * dev * (n - 1), ss)]

\* df[(df["z"].abs() >= 2) & df["z"].notna()]
IsAnomaly(z) == z.def /\ ~FracLess(z.sq, FracInt(ZThreshold * ZThreshold))

\* The f-string of an alert, as its fields.
Alert(r, z) ==
    [Parameter |-> r.Parameter, City |-> r.City, Value |-> r.Value,
     Unit |-> r.Unit, z |-> z]

\* The possible alert lists of a cleaned frame.
detect_anomalies(df) ==
    LET scored == [i \in 1..Len(df) |->
                      [key |-> Alert(df[i], zscore(df, df[i])),
                       v |-> zscore(df, df[i]).sq]]
        anomalies == SelectSeq(scored, LAMBDA x : IsAnomaly(x.key.z))
    IN  {[i \in 1..Len(top) |-> top[i].key] :
            top \in {head(srt, AlertCap) : srt \in sort_values_desc(anomalies)}}

Lookup(ser, k) == CHOOSE i \in 1..Len(ser) : ser[i].key = k
HasKey(ser, k) == \E i \in 1..Len(ser) : ser[i].key = k

\* Faulty variant: cur_avg.sub(prev_avg, fill_value=0), which keeps the locations
\* of one side only.
sub_fill_zero(cur_avg, prev_avg) ==
    LET keys == SortedKeys({cur_avg[i].key : i \in 1..Len(cur_avg)}
                           \cup {prev_avg[i].key : i \in 1..Len(prev_avg)})
        val(ser, k) == IF HasKey(ser, k) THEN ser[Lookup(ser, k)].v ELSE FracInt(0)
    IN  [i \in 1..Len(keys) |->
            [key |-> keys[i], v |-> FracSub(val(cur_avg, keys[i]), val(prev_avg, keys[i]))]]

\* (cur_avg - prev_avg).dropna(): the subtraction aligns on the union of
\* the keys and is NaN where a side is missing
sub_dropna(cur_avg, prev_avg) ==
    LET keys == SortedKeys({cur_avg[i].key : i \in 1..Len(cur_avg)}
                           \cup {prev_avg[i].key : i \in 1..Len(prev_avg)})
        both == SelectSeq(keys, LAMBDA k : HasKey(cur_avg, k) /\ HasKey(prev_avg, k))
    IN  [i \in 1..Len(both) |->
            [key |-> both[i],
             v |-> FracSub(cur_avg[Lookup(cur_avg, both[i])].v,
                           prev_avg[Lookup(prev_avg, both[i])].v)]]

\* The possible values of out["deltas"].
compute_deltas(df, plan_, prev) ==
    IF plan_.compute_deltas /\ prev.some /\ df # <<>>
    THEN LET prev_avg == groupby_mean(Clean(prev.df), "City")
             cur_avg == groupby_mean(df, "City")
             diff == sub_dropna(cur_avg, prev_avg)
         IN  IF diff = <<>> THEN {NoneSeries}
             ELSE {SomeSeries(d) : d \in sort_values_desc(diff)}
    ELSE {NoneSeries}

\* The possible values of out["avg_by_city"] / out["avg_by_param"].
aggregate(df, wanted, col) ==
    IF wanted
    THEN {SomeSeries(a) : a \in sort_values_desc(groupby_mean(df, col))}
    ELSE {NoneSeries}

\* transformer(df, plan): the set of possible results
transformer(df_in, plan_, prev) ==
    IF df_in = <<>>
    THEN {[df |-> df_in, avg_by_city |-> NoneSeries, avg_by_param |-> NoneSeries,
           deltas |-> NoneSeries, alerts |-> <<>>]}
    ELSE LET df == Clean(df_in)
         IN  {[df |-> df, avg_by_city |-> c, avg_by_param |-> p,
               deltas |-> d, alerts |-> a] :
                 c \in aggregate(df, plan_.aggregate_city, "City"),
                 p \in aggregate(df, plan_.aggregate_param, "Parameter"),
                 d \in compute_deltas(df, plan_, prev),
                 a \in detect_anomalies(df)}

---------------------------------------------------------------------------
(* Critic and agent commentary.                                            *)

IsEmptySeries(s) == ~s.some \/ s.ser = <<>>

critic(plan_, output) ==
    (IF output.df = <<>> THEN <<"no rows">> ELSE <<>>)
    \o (IF plan_.aggregate_city /\ IsEmptySeries(output.avg_by_city)
        THEN <<"city aggregation produced no values">> ELSE <<>>)
    \o (IF plan_.aggregate_param /\ IsEmptySeries(output.avg_by_param)
        THEN <<"parameter aggregation produced no values">> ELSE <<>>)
    \o (IF output.alerts # <<>> THEN <<"anomalies detected">> ELSE <<>>)

Msg(agent, text, alerts) == [agent |-> agent, text |-> text, alerts |-> alerts]

\* The agent messages of a run (the numbers the first two messages quote
\* are left out: they repeat out["df"] and out["avg_by_city"]).
commentary(output) ==
    IF output.df = <<>>
    THEN <<Msg("Data Engineer", "no payload", <<>>),
           Msg("Data Scientist", "trend checks paused", <<>>),
           Msg("Policy Advisor", "no guidance", <<>>)>>
    ELSE <<Msg("Data Engineer", "pulled rows", <<>>),
           IF ~IsEmptySeries(output.avg_by_city)
           THEN Msg("Data Scientist", "highest average", <<>>)
           ELSE Msg("Data Scientist", "not decisive", <<>>),
           IF output.alerts # <<>>
           THEN Msg("Health Analyst", "alerts", head(output.alerts, AlertsInMsg))
           ELSE Msg("Health Analyst", "no strong anomalies", <<>>)>>

\* agent_msgs[-1] if agent_msgs else "No insight."
insight_of(msgs) ==
    IF msgs # <<>> THEN msgs[Len(msgs)] ELSE Msg("", "No insight.", <<>>)

---------------------------------------------------------------------------
(* The script.                                                             *)

Countries == {"IN", "US"}

EmptyCache == [c \in Countries |-> NoEntry]

NoCall == [msg |-> Msg("", "", <<>>), max_items |-> DefaultMaxItems, before |-> <<>>]

\* Construction of a session (lines 20-27), with an empty cache.
Init ==
    /\ etl_frame = 0
    /\ mem_insights = <<>>
    /\ prev_snapshot = NoneDf
    /\ last_run_meta = NoMeta
    /\ cache = EmptyCache
    /\ country = "IN"
    /\ rerun = FALSE
    /\ df_raw = <<>>
    /\ df_origin = Payload(<<>>)
    /\ plan = AllFalsePlan
    /\ out = [df |-> <<>>, avg_by_city |-> NoneSeries, avg_by_param |-> NoneSeries,
              deltas |-> NoneSeries, alerts |-> <<>>]
    /\ agent_msgs = <<>>
    /\ critic_notes = <<>>
    /\ call = NoCall
    /\ insight_log = <<>>

\* Faulty variant: an empty run leaves the retained snapshot as it was.
save_snapshot_keep(output) == IF output.df # <<>> THEN SomeDf(output.df) ELSE prev_snapshot

\* st.session_state.prev_snapshot = out["df"][...].copy() if not empty else None
save_snapshot(output) == IF output.df # <<>> THEN SomeDf(output.df) ELSE NoneDf

\* Lines 243-328 once the extractor has returned df: plan, transform,
\* commentary, memory, critic, snapshot; a click on "Refresh now" then
\* clears the cache and asks for a rerun.
Pipeline(c, df, origin, meta, cache1, click) ==
    /\ rerun => (c = country /\ ~click)
    /\ \E o \in transformer(df, planner(df, prev_snapshot), prev_snapshot) :
          /\ out' = o
          /\ agent_msgs' = commentary(o)
          /\ call' = [msg |-> insight_of(commentary(o)),
                      max_items |-> DefaultMaxItems, before |-> mem_insights]
          /\ mem_insights' =
                keep_memory(mem_insights, insight_of(commentary(o)), DefaultMaxItems)
          /\ insight_log' = Append(insight_log, insight_of(commentary(o)))
          /\ critic_notes' = critic(planner(df, prev_snapshot), o)
          /\ prev_snapshot' = save_snapshot(o)
    /\ plan' = planner(df, prev_snapshot)
    /\ etl_frame' = etl_frame + 1
    /\ df_raw' = df
    /\ df_origin' = origin
    /\ last_run_meta' = meta
    /\ country' = c
    /\ rerun' = click
    /\ cache' = IF click THEN EmptyCache ELSE cache1

\* A script run whose fetch_openaq call misses the cache: the function
\* body runs against the API's response and its return value is stored.
Miss(c, resp, click) ==
    /\ ~cache[c].hit
    /\ LET f == fetch_openaq(resp, last_run_meta)
       IN  Pipeline(c, f.df, resp, f.meta,
                    [cache EXCEPT ![c] = Entry(f.df, resp)], click)

\* A script run whose fetch_openaq call is answered from the cache: the
\* function body does not run.
Hit(c, click) ==
    /\ cache[c].hit
    /\ Pipeline(c, cache[c].df, cache[c].origin, last_run_meta, cache, click)

\* The ttl of a cache entry runs out.
Expire(c) ==
    /\ cache[c].hit
    /\ cache' = [cache EXCEPT ![c] = NoEntry]
    /\ UNCHANGED <<etl_frame, mem_insights, prev_snapshot, last_run_meta, country,
                   rerun, df_raw, df_origin, plan, out, agent_msgs, critic_notes,
                   call, insight_log>>

---------------------------------------------------------------------------
(* Specification of a session: short snapshots, failing fetches, the       *)
(* cache.                                                                  *)

SessionRows ==
    {Row("Agra", "pm25", Num(10)), Row("Delhi", "pm25", Num(20)),
     Row("Agra", "pm25", Text)}

Responses ==
    {Failure("timeout"), Failure("http 500")}
    \cup {Payload(r) : r \in SeqsUpTo(SessionRows, MaxRows)}

Next ==
    \/ \E c \in Countries, resp \in Responses, click \in BOOLEAN :
          etl_frame < MaxRuns /\ Miss(c, resp, click)
    \/ \E c \in Countries, click \in BOOLEAN :
          etl_frame < MaxRuns /\ Hit(c, click)
    \/ \E c \in Countries : Expire(c)

Spec == Init /\ [][Next]_vars

---------------------------------------------------------------------------
(* Specification of the memory over many runs: two responses, one country. *)

MemResponses == {Failure("timeout"), Payload(<<Row("Agra", "pm25", Num(10))>>)}

NextMemory ==
    \/ \E resp \in MemResponses, click \in BOOLEAN :
          etl_frame < MaxMemRuns /\ Miss("IN", resp, click)
    \/ \E click \in BOOLEAN : etl_frame < MaxMemRuns /\ Hit("IN", click)
    \/ Expire("IN")

SpecMemory == Init /\ [][NextMemory]_vars

---------------------------------------------------------------------------
(* Specification of keep_memory alone: calls with any capacity.            *)

KeepMsgs == {Msg("", "a", <<>>), Msg("", "b", <<>>)}

KeepCall(msg, max_items) ==
    /\ mem_insights' = keep_memory(mem_insights, msg, max_items)
    /\ call' = [msg |-> msg, max_items |-> max_items, before |-> mem_insights]
    /\ insight_log' = Append(insight_log, msg)
    /\ UNCHANGED <<etl_frame, prev_snapshot, last_run_meta, cache, country, rerun,
                   df_raw, df_origin, plan, out, agent_msgs, critic_notes>>

NextKeep ==
    \E msg \in KeepMsgs, max_items \in 0..MaxCap :
        Len(insight_log) < MaxCalls /\ KeepCall(msg, max_items)

SpecKeep == Init /\ [][NextKeep]_vars

---------------------------------------------------------------------------
(* Specification of the planner and the aggregations: the first run of a   *)
(* session over every snapshot of up to MaxAggRows rows.                   *)

AggRows ==
    {Row(c, p, v) : c \in {"Agra", "Delhi", NullKey}, p \in {"pm25", "o3"},
                    v \in {Num(10), Num(20), Text}}

NextAggregate ==
    /\ etl_frame = 0
    /\ \E resp \in {Payload(r) : r \in SeqsUpTo(AggRows, MaxAggRows)} :
          Miss("IN", resp, FALSE)

SpecAggregate == Init /\ [][NextAggregate]_vars

---------------------------------------------------------------------------
(* Specification of the deltas: a first run and the run after it, each     *)
(* over every snapshot of up to MaxDeltaRows rows.                         *)

DeltaRows ==
    {Row("Agra", "pm25", Num(10)), Row("Agra", "pm25", Num(20)),
     Row("Delhi", "pm25", Num(10)), Row("Delhi", "pm25", Text),
     Row(NullKey, "pm25", Num(10))}

NextDelta ==
    /\ etl_frame \in {0, 1}
    /\ \E c \in Countries :
          /\ ~cache[c].hit
          /\ \E resp \in {Payload(r) : r \in SeqsUpTo(DeltaRows, MaxDeltaRows)} :
                Miss(c, resp, FALSE)

SpecDelta == Init /\ [][NextDelta]_vars

---------------------------------------------------------------------------
(* Specification of the anomaly detector: the first run of a session over  *)
(* snapshots with two parameter groups, each a number of equal base        *)
(* readings followed by up to MaxOutliers equal outliers.  (|z| >= 2 needs *)
(* a group of at least six readings.)                                      *)

BaseCounts == {0, 1, 2, 4, 5, 9, 13}

Repeat(r, k) == [i \in 1..k |-> r]

\* The base readings come from one city, each outlier from a city of its own.
OutlierCity(i) == <<"Delhi", "Pune", "Agra">>[((i - 1) % 3) + 1]

Group(p, base, outlier, nb, no) ==
    Repeat(Row("Agra", p, Num(base)), nb)
    \o [i \in 1..no |-> Row(OutlierCity(i), p, Num(outlier))]

AnomalySnapshots ==
    {Group("pm25", 10, 100, b1, o1) \o Group("o3", 100, 10, b2, o2) :
        b1 \in BaseCounts, o1 \in 0..MaxOutliers,
        b2 \in BaseCounts, o2 \in 0..MaxOutliers}

NextAnomaly ==
    /\ etl_frame = 0
    /\ \E df \in AnomalySnapshots : Miss("IN", Payload(df), FALSE)

SpecAnomaly == Init /\ [][NextAnomaly]_vars

---------------------------------------------------------------------------
(* Vocabulary of the properties.                                           *)

\* A step that is one script run.
RunStep == etl_frame' = etl_frame + 1

\* The rows of a raw snapshot that carry a number, in their order: the
\* cleaned snapshot.
NumericRows(df) == SelectSeq(df, LAMBDA r : r.Value.t = "num")

\* The last m entries of a sequence, in their order.
LastOf(s, m) == [i \in 1..m |-> s[Len(s) - m + i]]

\* The insight a run records: the fallback of a run without rows, the
\* health analyst's message otherwise.
IsInsightOf(m, df) ==
    IF NumericRows(df) = <<>>
    THEN m = Msg("Policy Advisor", "no guidance", <<>>)
    ELSE m.agent = "Health Analyst"

---------------------------------------------------------------------------
(* C1.  With the default capacity 8, after k runs of a session (each run   *)
(* calls keep_memory once, whatever its snapshot) mem_insights is the last *)
(* min(k, 8) per-run insight messages, oldest first, and never longer than *)
(* 8.  Checked under SpecMemory.                                           *)
C1_MemoryIsLastEight ==
    /\ Len(insight_log) = etl_frame
    /\ Len(mem_insights) = Min(etl_frame, DefaultMaxItems)
    /\ Len(mem_insights) <= 8
    /\ mem_insights = LastOf(insight_log, Min(etl_frame, 8))
    /\ etl_frame > 0 => IsInsightOf(mem_insights[Len(mem_insights)], df_raw)

\* More runs than the capacity, with both kinds of message retained.
C1_Witness ==
    /\ etl_frame >= 10
    /\ Len(mem_insights) = 8
    /\ mem_insights[1] # mem_insights[2]
    /\ mem_insights[1] # insight_log[1]

---------------------------------------------------------------------------
(* C3.  At the end of each run the retained previous snapshot is that      *)
(* run's cleaned snapshot if it has rows and none otherwise, never merged  *)
(* with an older one; so in a run with a non-empty snapshot compute_deltas *)
(* is true iff the run before ended with a non-empty cleaned snapshot, it  *)
(* is false in the first run, and an empty snapshot gets the all-false     *)
(* plan.                                                                   *)
C3_SnapshotOverwritten ==
    [][RunStep =>
        /\ prev_snapshot' = IF NumericRows(df_raw') # <<>>
                            THEN SomeDf(NumericRows(df_raw')) ELSE NoneDf
        /\ df_raw' # <<>> =>
              (plan'.compute_deltas <=> (etl_frame > 0 /\ NumericRows(df_raw) # <<>>))
        /\ etl_frame = 0 => ~plan'.compute_deltas
        /\ df_raw' = <<>> => plan' = AllFalsePlan]_vars

\* A third run that plans deltas after a run with rows that itself followed
\* a run without rows.
C3_Witness ==
    /\ etl_frame = 3
    /\ plan.compute_deltas
    /\ insight_log[1].agent = "Policy Advisor"
    /\ insight_log[2].agent = "Health Analyst"
    /\ prev_snapshot.some /\ prev_snapshot.df = NumericRows(df_raw)

---------------------------------------------------------------------------
(* C7.  A run whose input snapshot is empty, whatever the session holds,   *)
(* yields an empty cleaned table, the all-false plan, no averages, no      *)
(* deltas, no alerts, the "no rows" note alone, one new entry at the end   *)
(* of the memory (the fallback message), and no retained snapshot.         *)
C7_EmptyRun ==
    [][(RunStep /\ df_raw' = <<>>) =>
        /\ out'.df = <<>>
        /\ plan' = AllFalsePlan
        /\ out'.avg_by_city = NoneSeries /\ out'.avg_by_param = NoneSeries
        /\ out'.deltas = NoneSeries
        /\ out'.alerts = <<>>
        /\ critic_notes' = <<"no rows">>
        /\ LET m == Min(Len(mem_insights) + 1, 8)
           IN  /\ Len(mem_insights') = m
               /\ mem_insights'[m] = Msg("Policy Advisor", "no guidance", <<>>)
               /\ \A i \in 1..(m - 1) :
                     mem_insights'[i] = mem_insights[Len(mem_insights) - (m - 1) + i]
        /\ prev_snapshot' = NoneDf]_vars

\* An empty run of a session that retained a snapshot and has a memory.
C7_Witness ==
    /\ etl_frame >= 2
    /\ df_raw = <<>>
    /\ insight_log[Len(insight_log) - 1].agent = "Health Analyst"
    /\ critic_notes = <<"no rows">>
    /\ ~prev_snapshot.some
    /\ Len(mem_insights) >= 2

---------------------------------------------------------------------------
(* C8.  In every run whose snapshot is the result of a failed fetch (from  *)
(* the function body or from the cache that kept its return value) the run *)
(* completes as an empty-snapshot run and the failure's reason is in       *)
(* last_run_meta; and last_run_meta holds a failure reason only for runs   *)
(* whose snapshot came from a failed fetch.                                *)
C8_ReasonOnlyForFailedRuns ==
    etl_frame > 0 =>
        /\ ~df_origin.ok =>
              /\ df_raw = <<>> /\ critic_notes = <<"no rows">>
              /\ last_run_meta.has_error
              /\ last_run_meta.extract_error = df_origin.reason
        /\ last_run_meta.has_error => ~df_origin.ok

---------------------------------------------------------------------------
(* Vocabulary of the properties about frames.                              *)

\* The non-null values of a column.
KeysOf(df, col) == {df[i][col] : i \in 1..Len(df)} \ {NullKey}

\* The positions of the rows of a frame with key k in column col.
RowsOf(df, col, k) == {i \in 1..Len(df) : df[i][col] = k}

RECURSIVE Total(_, _)
\* The sum of the values at a set of positions.
Total(df, I) ==
    IF I = {} THEN 0
    ELSE LET i == CHOOSE x \in I : TRUE IN df[i].Value.n + Total(df, I \ {i})

\* q is the mean of the values of the rows with key k.
IsMean(q, df, col, k) ==
    q.n * Cardinality(RowsOf(df, col, k)) = q.d * Total(df, RowsOf(df, col, k))

\* The first position of key k.
FirstSeen(df, col, k) == CHOOSE i \in RowsOf(df, col, k) : \A j \in RowsOf(df, col, k) : i <= j

\* A series lists exactly the keys of a column, once each, with their means.
IsAggregateOf(ser, df, col) ==
    /\ Len(ser) = Cardinality(KeysOf(df, col))
    /\ {ser[i].key : i \in 1..Len(ser)} = KeysOf(df, col)
    /\ \A i \in 1..Len(ser) : IsMean(ser[i].v, df, col, ser[i].key)

Descending(ser) == \A i, j \in 1..Len(ser) : i < j => ~FracLess(ser[i].v, ser[j].v)

TiesByFirstSeen(ser, df, col) ==
    \A i, j \in 1..Len(ser) :
        (i < j /\ ser[i].v = ser[j].v)
            => FirstSeen(df, col, ser[i].key) < FirstSeen(df, col, ser[j].key)

\* q is the mean of location k in cur minus its mean in prev.
IsMeanDifference(q, cur, prev, k) ==
    LET cs == Total(cur, RowsOf(cur, "City", k))
        cn == Cardinality(RowsOf(cur, "City", k))
        ps == Total(prev, RowsOf(prev, "City", k))
        pn == Cardinality(RowsOf(prev, "City", k))
    IN  q.n * (cn * pn) = q.d * (cs * pn - ps * cn)

---------------------------------------------------------------------------
---------------------------------------------------------------------------
(* C9 as stated.  Every aggregate is ordered descending by group mean and  *)
(* groups of equal mean appear in the order their keys were first met in   *)
(* the cleaned snapshot.                                                   *)
C9_TiesByFirstSeen ==
    /\ out.avg_by_city.some =>
          /\ Descending(out.avg_by_city.ser)
          /\ TiesByFirstSeen(out.avg_by_city.ser, out.df, "City")
    /\ out.avg_by_param.some =>
          /\ Descending(out.avg_by_param.ser)
          /\ TiesByFirstSeen(out.avg_by_param.ser, out.df, "Parameter")

(* C9 as amended.  Every aggregate lists each group of the cleaned         *)
(* snapshot once with its mean, ordered descending by mean; groups of      *)
(* equal mean need not appear in their first-met order (groupby emits the  *)
(* groups in key order and the sort fixes no order among ties).            *)
C9_DescendingByMean ==
    /\ out.avg_by_city.some =>
          /\ Descending(out.avg_by_city.ser)
          /\ IsAggregateOf(out.avg_by_city.ser, NumericRows(df_raw), "City")
    /\ out.avg_by_param.some =>
          /\ Descending(out.avg_by_param.ser)
          /\ IsAggregateOf(out.avg_by_param.ser, NumericRows(df_raw), "Parameter")

\* Two locations of different mean, the larger met second.
C9_Witness ==
    /\ out.avg_by_city.some
    /\ Len(out.avg_by_city.ser) = 2
    /\ FracLess(out.avg_by_city.ser[2].v, out.avg_by_city.ser[1].v)
    /\ FirstSeen(out.df, "City", out.avg_by_city.ser[2].key)
          < FirstSeen(out.df, "City", out.avg_by_city.ser[1].key)

---------------------------------------------------------------------------
(* C6.  When compute_deltas is planned and a previous snapshot is          *)
(* retained, the keys of the deltas are exactly the locations with a       *)
(* numeric row in both the current and the previous snapshot, each value   *)
(* is the location's current mean minus its previous mean, a zero delta    *)
(* stays, and there is no result when no location is shared.  Checked      *)
(* under SpecDelta.                                                        *)
C6_DeltasOverSharedLocations ==
    [][(RunStep /\ plan'.compute_deltas /\ prev_snapshot.some) =>
        LET cur == NumericRows(df_raw')
            prev == NumericRows(prev_snapshot.df)
            shared == KeysOf(cur, "City") \cap KeysOf(prev, "City")
            d == out'.deltas
        IN  IF shared = {} THEN d = NoneSeries
            ELSE /\ d.some
                 /\ Len(d.ser) = Cardinality(shared)
                 /\ {d.ser[i].key : i \in 1..Len(d.ser)} = shared
                 /\ \A i \in 1..Len(d.ser) :
                       IsMeanDifference(d.ser[i].v, cur, prev, d.ser[i].key)]_vars

\* Deltas with a shared location of zero delta kept, while a location of
\* the current snapshot that the previous one lacks is left out.
C6_Witness ==
    /\ etl_frame = 2
    /\ plan.compute_deltas
    /\ out.deltas.some
    /\ \E i \in 1..Len(out.deltas.ser) : out.deltas.ser[i].v.n = 0
    /\ KeysOf(out.df, "City") # {out.deltas.ser[i].key : i \in 1..Len(out.deltas.ser)}

---------------------------------------------------------------------------
(* Vocabulary of the properties about z-scores.  A row's group is the set  *)
(* of rows of the cleaned snapshot with its parameter; with n rows of sum  *)
(* S, the squared deviation of value x from the mean is (n x - S)^2 / n^2  *)
(* and the sample variance is the sum of these over n - 1.                 *)

RECURSIVE TotalSq(_, _, _, _)
TotalSq(df, I, n, S) ==
    IF I = {} THEN 0
    ELSE LET i == CHOOSE x \in I : TRUE
         IN  (n * df[i].Value.n - S) * (n * df[i].Value.n - S)
             + TotalSq(df, I \ {i}, n, S)

GroupOf(df, i) == RowsOf(df, "Parameter", df[i].Parameter)
GroupSize(df, i) == Cardinality(GroupOf(df, i))
GroupSum(df, i) == Total(df, GroupOf(df, i))
GroupSq(df, i) == TotalSq(df, GroupOf(df, i), GroupSize(df, i), GroupSum(df, i))
Dev(df, i) == GroupSize(df, i) * df[i].Value.n - GroupSum(df, i)

\* The group of row i has a standard deviation that is defined and not 0.
HasSpread(df, i) ==
    /\ df[i].Parameter # NullKey
    /\ GroupSize(df, i) >= 2
    /\ \E j, k \in GroupOf(df, i) : df[j].Value # df[k].Value

\* z^2 of row i, for a group with spread.
ZSquared(df, i) == Frac((GroupSize(df, i) - 1) * Dev(df, i) * Dev(df, i), GroupSq(df, i))

\* |z| >= 2 for row i.
Extreme(df, i) ==
    /\ HasSpread(df, i)
    /\ (GroupSize(df, i) - 1) * Dev(df, i) * Dev(df, i) >= 4 * GroupSq(df, i)

\* Alert a is about row r.
About(a, r) ==
    /\ a.Parameter = r.Parameter /\ a.City = r.City
    /\ a.Value = r.Value /\ a.Unit = r.Unit

FiveValues == Group("pm25", 10, 100, 4, 1)
SixValues == Group("pm25", 10, 100, 5, 1)

---------------------------------------------------------------------------
(* C4 as stated.  Given a snapshot whose only parameter group has the      *)
(* values [10, 10, 10, 10, 100], the detector (group mean, sample standard *)
(* deviation, |z| >= 2) produces an alert for the row with value 100.      *)
C4_FiveValuesAlert ==
    (etl_frame > 0 /\ df_raw = FiveValues) =>
        \E k \in 1..Len(out.alerts) : out.alerts[k].Value = Num(100)

(* C4 as amended.  Given [10, 10, 10, 10, 100] the detector produces no    *)
(* alert: with the sample standard deviation the z of 100 is               *)
(* 72 / sqrt(1620), about 1.79, below 2.  The single extreme value is      *)
(* flagged from six readings on: [10, 10, 10, 10, 10, 100] gives one alert *)
(* for the row with value 100.                                             *)
C4_FiveValuesNoAlert ==
    /\ (etl_frame > 0 /\ df_raw = FiveValues) => out.alerts = <<>>
    /\ (etl_frame > 0 /\ df_raw = SixValues) =>
          /\ Len(out.alerts) = 1
          /\ About(out.alerts[1], SixValues[6])
          /\ out.alerts[1].z.sign = 1

\* The five values were run, scored with a defined z, and none was flagged.
C4_Witness ==
    /\ etl_frame > 0
    /\ df_raw = FiveValues
    /\ HasSpread(out.df, 5)
    /\ ZSquared(out.df, 5) = Frac(16, 5)
    /\ critic_notes = <<>>

---------------------------------------------------------------------------
(* C5.  For every snapshot the transformer emits at most 3 alerts; every   *)
(* alert is about a row with |z| >= 2 in its parameter group; the alerts   *)
(* are ordered by |z| descending and no row left out has a larger |z| than *)
(* an emitted one; and no alert is about a row of a group whose standard   *)
(* deviation is zero or undefined.  Checked under SpecAnomaly.             *)
C5_TopThreeAlerts ==
    LET df == NumericRows(df_raw)
        al == out.alerts
        emitted(i) == \E k \in 1..Len(al) : About(al[k], df[i])
    IN  /\ Len(al) <= 3
        /\ \A k \in 1..Len(al) :
              \E i \in 1..Len(df) :
                  /\ About(al[k], df[i])
                  /\ HasSpread(df, i)
                  /\ Extreme(df, i)
                  /\ al[k].z.def /\ al[k].z.sq = ZSquared(df, i)
        /\ \A k, l \in 1..Len(al) : k < l => ~FracLess(al[k].z.sq, al[l].z.sq)
        /\ \A i \in 1..Len(df) :
              (Extreme(df, i) /\ ~emitted(i))
                  => /\ Len(al) = 3
                     /\ \A k \in 1..Len(al) : ~FracLess(al[k].z.sq, ZSquared(df, i))

\* Four extreme rows in two groups: three alerts of two different sizes of
\* z, one extreme row left out.
C5_Witness ==
    LET df == NumericRows(df_raw)
    IN  /\ Cardinality({i \in 1..Len(df) : Extreme(df, i)}) >= 4
        /\ Len(out.alerts) = 3
        /\ FracLess(out.alerts[3].z.sq, out.alerts[1].z.sq)
        /\ \E i \in 1..Len(df) :
              /\ Extreme(df, i)
              /\ \A k \in 1..3 : ~About(out.alerts[k], df[i])

---------------------------------------------------------------------------
(* C10.  For every capacity N >= 0 and every prior log, after              *)
(* keep_memory(msg, N) the log holds at most N entries: the last           *)
(* min(len_before + 1, N) entries of the log with msg appended, in order;  *)
(* N = 0 and N = 1 included.  Checked under SpecKeep.                      *)
C10_KeepLastN ==
    Len(insight_log) > 0 =>
        /\ Len(mem_insights) <= call.max_items
        /\ mem_insights = LastOf(Append(call.before, call.msg),
                                 Min(Len(call.before) + 1, call.max_items))

====
